---- MODULE Spec2Model ----
(***************************************************************************)
(* Case store and case lifecycle tracker of the digital estate action      *)
(* agent (digital_estate_action/agent.py): send_recovery_email records a   *)
(* case in case_tracking.json, track_case_status derives the case's tier   *)
(* from the days elapsed since its creation.                               *)
(*                                                                         *)
(* The clock is the wall clock read by datetime.now(), in whole seconds    *)
(* since the model's epoch; it never goes backward.  A sequential call of  *)
(* a tool function runs within one clock second.                           *)
(*                                                                         *)
(* Texts (the generated email, email addresses, zipcodes) are strings and  *)
(* are cut, joined, searched and lower-cased character by character.       *)
(*                                                                         *)
(* Eight specifications drive the functions:                               *)
(*   Spec      one caller, a store that may already hold cases, seconds    *)
(*             passing, the file removed or damaged from outside;          *)
(*   LifeSpec  one caller following cases created on day 0 over months;    *)
(*   ConcSpec  two callers whose send_recovery_email calls interleave;     *)
(*   DocSpec   send_recovery_email with the document it generates and the  *)
(*             mail configuration it finds;                                *)
(*   DiscoverSpec  one call of discover_digital_assets                     *)
(*             (tools/discovery_tools.py);                                 *)
(*   LawSpec   calls of find_nearby_lawyers (tools/legal_tools.py);        *)
(*   AnalyzeSpec  one call of analyze_email_content                        *)
(*             (tools/discovery_tools.py);                                 *)
(*   GuideSpec a caller asking for form instructions between sends.        *)
(***************************************************************************)
EXTENDS Integers, Sequences, FiniteSets, TLC

VARIABLES
    now,            \* the wall clock, in seconds
    tracking_file,  \* the content of TRACKING_FILE (case_tracking.json)
    sends,          \* number of send_recovery_email calls started so far
    result,         \* what the last tool call returned (op = "none": no call was the last step)
    pc,             \* per concurrent caller: its position in send_recovery_email
    local           \* per concurrent caller: its case_id, arguments and tracking_data

vars == <<now, tracking_file, sends, result, pc, local>>

----------------------------------------------------------------------------
(* Bounds of the model *)

MaxSends == 2       \* send_recovery_email calls in a run of Spec
MaxOld == 5         \* cases already in the store when a run of Spec starts
MaxTicks == 1       \* seconds the clock advances, second by second
MaxDays == 91       \* days the clock advances in a run of LifeSpec
MaxLifeSends == 1   \* send_recovery_email calls in a run of LifeSpec
MaxDocSends == 1    \* send_recovery_email calls in a run of DocSpec
MaxEmails == 2      \* length of deceased_emails in a run of DiscoverSpec

(* Program constants *)

DaySeconds == 86400 \* timedelta.days counts whole 86400-second days
ListedCases == 5    \* list(tracking_data.keys())[:5]
PreviewLength == 500 \* body[:500]
DistancePenalty == 100 \* lawyer["distance_miles"] += 10, in tenths of a mile
ReturnedLawyers == 5 \* filtered_lawyers[:5]

----------------------------------------------------------------------------
(* Arguments of the tool functions *)

\* (platform, deceased_name, executor_name) of the calls the model makes
Requests ==
    { [platform |-> "Google",    deceased_name |-> "Ann", executor_name |-> "Eve"],
      [platform |-> "Facebook",  deceased_name |-> "Ann", executor_name |-> "Eve"],
      [platform |-> "Facebook",  deceased_name |-> "Bob", executor_name |-> "Max"],
      [platform |-> "facebook",  deceased_name |-> "Bob", executor_name |-> "Max"],
      [platform |-> "Apple",     deceased_name |-> "Bob", executor_name |-> "Max"],
      [platform |-> "Microsoft", deceased_name |-> "Ann", executor_name |-> "Eve"] }

\* one request per platform, for the runs that follow a case over months
LifeRequests ==
    { r \in Requests : r.platform = "facebook" \/ r.deceased_name = "Ann" }

\* what the write of the tracking file can do, and what the mail step can do
WriteOutcomes == {"ok", "denied"}
MailOutcomes == {"unconfigured", "delivered", "failed"}

----------------------------------------------------------------------------
(* platform_info: the reference table of send_recovery_email, its timeline *)
(* column ("30-90 days") as the pair of its bounds                         *)

\* The dict literal platform_info
platform_info_table ==
    [ Google |->
        [support_email |-> "accounts-support@google.com", lower |-> 30, upper |-> 90,
         process |-> "deceased user notification", timeline |-> "30-90 days",
         form_url |-> "https://support.google.com/accounts/contact/deceased"],
      Facebook |->
        [support_email |-> "support@fb.com", lower |-> 14, upper |-> 30,
         process |-> "memorialization request", timeline |-> "14-30 days",
         form_url |-> "https://www.facebook.com/help/contact/234739086860192"],
      Apple |->
        [support_email |-> "account_security@apple.com", lower |-> 60, upper |-> 180,
         process |-> "digital legacy contact", timeline |-> "60-180 days",
         form_url |-> "https://support.apple.com/en-us/HT208510"],
      Microsoft |->
        [support_email |-> "msaccount@microsoft.com", lower |-> 30, upper |-> 60,
         process |-> "account closure", timeline |-> "30-60 days",
         form_url |-> "https://support.microsoft.com/account-billing"] ]

\* A lookup whose default is Facebook's entry
platform_infoNoDefault(platform) ==
    IF platform \in DOMAIN platform_info_table THEN platform_info_table[platform]
    ELSE platform_info_table["Facebook"]

\* info = platform_info.get(platform, platform_info["Google"])
platform_info(platform) ==
    IF platform \in DOMAIN platform_info_table THEN platform_info_table[platform]
    ELSE platform_info_table["Google"]

InTable(platform) == platform \in {"Google", "Facebook", "Apple", "Microsoft"}

----------------------------------------------------------------------------
(* Identifiers and timestamps *)

\* str.upper() on the platform names the model uses
Upper(platform) ==
    CASE platform = "Google"    -> "GOOGLE"
      [] platform = "Facebook"  -> "FACEBOOK"
      [] platform = "facebook"  -> "FACEBOOK"
      [] platform = "Apple"     -> "APPLE"
      [] platform = "Microsoft" -> "MICROSOFT"
      [] platform = "Yahoo"     -> "YAHOO"
      [] OTHER                  -> platform

\* strftime('%Y%m%d_%H%M%S'): the date (as a day number) and the second of the day
StampDateOnly(t) == [date |-> t \div DaySeconds, time |-> 0]

Stamp(t) == [date |-> t \div DaySeconds, time |-> t % DaySeconds]

\* f"{platform.upper()}_{datetime.now().strftime('%Y%m%d_%H%M%S')}"
MakeCaseId(platform, t) ==
    [tag |-> Upper(platform), date |-> Stamp(t).date, time |-> Stamp(t).time]

\* datetime.isoformat() and datetime.fromisoformat()
IsoFormat(t) == [date |-> t \div DaySeconds, time |-> t % DaySeconds]
FromIsoFormat(s) == s.date * DaySeconds + s.time

\* (datetime.now() - created_date).days
DaysElapsedByMonthDay(t, created) ==
    ((t \div DaySeconds) % 30) - ((created \div DaySeconds) % 30)

DaysElapsed(t, created) == (t - created) \div DaySeconds

\* an identifier no creation produces
BogusId == [tag |-> "NO_SUCH_CASE", date |-> 0, time |-> 0]

----------------------------------------------------------------------------
(* The tracking file and the mapping it holds.  A mapping is the sequence  *)
(* of its (key, record) entries in insertion order, as a Python dict and   *)
(* the JSON object written from it are.                                    *)

Missing == [kind |-> "missing", entries |-> <<>>]       \* no such file
Corrupt == [kind |-> "corrupt", entries |-> <<>>]       \* unreadable, or not JSON
NonMapping == [kind |-> "nonmapping", entries |-> <<>>] \* JSON, but not an object

\* json.dump(tracking_data, f, indent=2, default=str)
JsonDump(tracking_data) == [kind |-> "object", entries |-> tracking_data]

Keys(tracking_data) == { tracking_data[i].key : i \in DOMAIN tracking_data }

Get(tracking_data, key) ==
    tracking_data[CHOOSE i \in DOMAIN tracking_data : tracking_data[i].key = key].rec

\* tracking_data[case_id] = record, on a dict
SetItem(tracking_data, key, rec) ==
    IF key \in Keys(tracking_data)
    THEN [i \in DOMAIN tracking_data |->
            IF tracking_data[i].key = key THEN [key |-> key, rec |-> rec]
            ELSE tracking_data[i]]
    ELSE Append(tracking_data, [key |-> key, rec |-> rec])

\* The keys a file holds, whatever its state
FileKeys(file) == IF file.kind = "object" THEN Keys(file.entries) ELSE {}

----------------------------------------------------------------------------
(* The last tool call: what it returned and, for the properties to refer   *)
(* to, what it was called with.  Every result carries every field; a field *)
(* the returned dict does not have holds its blank value.                  *)

NoId == [tag |-> "", date |-> 0, time |-> 0]
NoDate == [date |-> 0, time |-> 0]

NoRequest == [platform |-> "", deceased_name |-> "", executor_name |-> ""]

NoResult ==
    [ op |-> "none",            \* "send", "track", or "none"
      request |-> NoRequest,    \* the arguments of a send_recovery_email call
      asked |-> NoId,           \* the argument of a track_case_status call
      file_before |-> "",       \* the state of the file when the call was made
      write |-> "",             \* what the write of a send_recovery_email call did
      raised |-> FALSE,         \* the call raised instead of returning
      status |-> "",
      case_id |-> NoId,
      platform |-> "",
      deceased_name |-> "",
      executor_name |-> "",
      created_date |-> NoDate,
      days_elapsed |-> 0,
      current_status |-> "",
      estimated_completion |-> <<>>,  \* the numbers of days shown in the text
      next_steps |-> <<>>,
      under_review |-> "",            \* timeline_progress["under_review"]
      has_available_cases |-> FALSE,  \* the result has the key available_cases
      available_cases |-> <<>>,
      support_email |-> "" ]

----------------------------------------------------------------------------
(* send_recovery_email *)

\* The case record stored under case_id
CaseRecordSwapped(case_id, r, t) ==
    [ case_id |-> case_id,
      platform |-> r.platform,
      deceased_name |-> r.executor_name,
      executor_name |-> r.deceased_name,
      action_type |-> "email",
      created_date |-> IsoFormat(t),
      status |-> "submitted",
      last_updated |-> IsoFormat(t) ]

CaseRecord(case_id, r, t) ==
    [ case_id |-> case_id,
      platform |-> r.platform,
      deceased_name |-> r.deceased_name,
      executor_name |-> r.executor_name,
      action_type |-> "email",
      created_date |-> IsoFormat(t),
      status |-> "submitted",
      last_updated |-> IsoFormat(t) ]

\* The load step: tracking_data = {} unless the file exists and parses.
\* is_dict is FALSE when the file parses to something that is not a dict,
\* so that the item assignment raises TypeError into the outer except.
LoadForSendStrict(file) ==
    IF file.kind = "object" THEN [is_dict |-> TRUE, data |-> file.entries]
    ELSE [is_dict |-> FALSE, data |-> <<>>]

LoadForSendForgetful(file) == [is_dict |-> file.kind # "nonmapping", data |-> <<>>]

LoadForSend(file) ==
    CASE file.kind = "missing"    -> [is_dict |-> TRUE, data |-> <<>>]
      [] file.kind = "corrupt"    -> [is_dict |-> TRUE, data |-> <<>>]
      [] file.kind = "object"     -> [is_dict |-> TRUE, data |-> file.entries]
      [] file.kind = "nonmapping" -> [is_dict |-> FALSE, data |-> <<>>]

\* The save step: the file after open(TRACKING_FILE, 'w') and json.dump
SaveFileLast(file, tracking_data, wr) ==
    IF wr = "ok" THEN JsonDump(<<tracking_data[Len(tracking_data)]>>) ELSE file

SaveFile(file, tracking_data, wr) ==
    IF wr = "ok" THEN JsonDump(tracking_data) ELSE file

\* The status of the mail step: demo without configuration, else sent or error
MailStatus(mail) ==
    CASE mail = "unconfigured" -> "demo"
      [] mail = "delivered"    -> "sent"
      [] mail = "failed"       -> "error"

\* The whole call at clock t: the file it leaves and the dict it returns
SendRecoveryEmail(file, r, t, wr, mail) ==
    LET case_id == MakeCaseId(r.platform, t)
        loaded == LoadForSend(file)
        after ==
            IF loaded.is_dict
            THEN SaveFile(file, SetItem(loaded.data, case_id, CaseRecord(case_id, r, t)), wr)
            ELSE file
    IN  [ file |-> after,
          result |-> [NoResult EXCEPT
              !.op = "send",
              !.status = MailStatus(mail),
              !.case_id = case_id,
              !.platform = IF mail = "failed" THEN "" ELSE r.platform,
              !.support_email =
                  IF mail = "failed" THEN "" ELSE platform_info(r.platform).support_email] ]

----------------------------------------------------------------------------
(* send_recovery_email: the generated document and the mail step *)

\* The party facts that go into the document only
Facts ==
    { [deceased_email |-> "ann.lee@gmail.com", deceased_date |-> "2024-01-15",
       executor_email |-> "eve@mail.org", executor_relationship |-> "Daughter",
       available_documents |-> "Death certificate, Will"],
      [deceased_email |-> "bob@outlook.com", deceased_date |-> "2023-11-02",
       executor_email |-> "max@post.net", executor_relationship |-> "Executor",
       available_documents |-> "Letters testamentary"] }

\* The requests of the document runs: a known and two unknown platform names more
DocRequests ==
    Requests \cup
    { [platform |-> "Yahoo", deceased_name |-> "Ann", executor_name |-> "Eve"],
      [platform |-> "GOOGLE", deceased_name |-> "Bob", executor_name |-> "Max"] }

\* t in s, for strings
Contains(s, t) ==
    \E i \in 1..(Len(s) - Len(t) + 1) : SubSeq(s, i, i + Len(t) - 1) = t

Subject(r) == "Digital Estate Recovery Request - " \o r.deceased_name \o " (Deceased)"

Body(r, f, info) ==
       "Dear " \o r.platform \o " Support Team,\n"
    \o "\n"
    \o "I hope this message finds you well. I am writing to inform you of the passing of " \o r.deceased_name \o ", who held an account with " \o r.platform \o " under the email address " \o f.deceased_email \o ".\n"
    \o "\n"
    \o "DECEASED INFORMATION:\n"
    \o "- Full Name: " \o r.deceased_name \o "\n"
    \o "- Email Address: " \o f.deceased_email \o "\n"
    \o "- Date of Passing: " \o f.deceased_date \o "\n"
    \o "\n"
    \o "REQUESTING PARTY INFORMATION:\n"
    \o "- Name: " \o r.executor_name \o "\n"
    \o "- Email: " \o f.executor_email \o "  \n"
    \o "- Relationship to Deceased: " \o f.executor_relationship \o "\n"
    \o "\n"
    \o "I am reaching out to request assistance with accessing or managing the deceased's " \o r.platform \o " account in accordance with your " \o info.process \o " procedures. This request is being made to:\n"
    \o "\n"
    \o "1. Preserve important family memories and documents\n"
    \o "2. Properly close the account per your policies\n"
    \o "3. Retrieve any essential personal or business information\n"
    \o "4. Address ongoing services or subscriptions\n"
    \o "\n"
    \o "AVAILABLE DOCUMENTATION:\n"
    \o f.available_documents \o "\n"
    \o "\n"
    \o "I understand that " \o r.platform \o " has specific procedures for handling deceased user accounts, and I am prepared to provide any additional documentation required. Based on your published guidelines, I expect this process may take approximately " \o info.timeline \o ".\n"
    \o "\n"
    \o "If there is a preferred form or additional process I should follow, please direct me to the appropriate resources. I have noted that " \o r.platform \o " may have an online form at: " \o info.form_url \o "\n"
    \o "\n"
    \o "I would greatly appreciate your guidance on the next steps and any specific requirements for processing this request. This is already a difficult time for our family, and your assistance would be invaluable.\n"
    \o "\n"
    \o "Please feel free to contact me at " \o f.executor_email \o " or respond to this email if you need any additional information or documentation.\n"
    \o "\n"
    \o "Thank you for your time and consideration.\n"
    \o "\n"
    \o "Respectfully,\n"
    \o "\n"
    \o r.executor_name \o "\n"
    \o f.executor_relationship \o " of " \o r.deceased_name \o "\n"
    \o "Email: " \o f.executor_email \o "\n"
    \o "\n"
    \o "---\n"
    \o "This request is made in accordance with applicable digital estate laws and " \o r.platform \o "'s deceased user policies."

\* subject and body of every call the model makes, generated once
Documents ==
    [ r \in DocRequests, f \in Facts |->
        [subject |-> Subject(r), text |-> Body(r, f, platform_info(r.platform))] ]

\* body[:500] + "..."
BodyPreview(text) ==
    (IF Len(text) <= PreviewLength THEN text ELSE SubSeq(text, 1, PreviewLength)) \o "..."

\* The value "email_preview" of all three result dicts
EmailPreview(r, f) ==
    [subject |-> Documents[r, f].subject, body_preview |-> BodyPreview(Documents[r, f].text)]

\* os.getenv: <<>> for a variable that is not set (None), else its value
EnvValues(value) == {<<>>, <<"">>, <<value>>}

\* The truth value Python gives an os.getenv result
TruthyWhenSet(v) == v # <<>>

Truthy(v) == v # <<>> /\ v[1] # ""

SmtpOutcomes == {"completes", "raises"}

\* The mail step: whether a transmission is attempted, the message handed
\* to the SMTP server, and how the step ends
MailStep(r, f, gmail_email, gmail_password, smtp) ==
    IF Truthy(gmail_email) /\ Truthy(gmail_password)
    THEN [ attempted |-> TRUE,
           message |-> << [From |-> gmail_email[1],
                           To |-> platform_info(r.platform).support_email,
                           Subject |-> Documents[r, f].subject,
                           text |-> Documents[r, f].text] >>,
           mail |-> IF smtp = "completes" THEN "delivered" ELSE "failed" ]
    ELSE [ attempted |-> FALSE, message |-> <<>>, mail |-> "unconfigured" ]

\* The whole call with its document: the file it leaves and the dict it
\* returns, with the arguments and configuration of the call beside it
SendRecoveryEmailDocument(file, r, f, t, wr, gmail_email, gmail_password, smtp) ==
    LET step == MailStep(r, f, gmail_email, gmail_password, smtp)
        out == SendRecoveryEmail(file, r, t, wr, step.mail)
    IN  [ file |-> out.file,
          result |->
              [ email_preview |-> EmailPreview(r, f),
                estimated_response_time |->
                    IF step.mail = "failed" THEN "" ELSE platform_info(r.platform).timeline,
                attempted |-> step.attempted,
                message |-> step.message,
                facts |-> f,
                gmail_email |-> gmail_email,
                gmail_password |-> gmail_password ] @@ out.result ]

----------------------------------------------------------------------------
(* track_case_status *)

\* current_status, by platform and days elapsed
CurrentStatus(platform, days_elapsed) ==
    IF platform = "Facebook" THEN
        IF days_elapsed < 14 THEN "Under review"
        ELSE IF days_elapsed < 30 THEN "Should hear back soon"
        ELSE "Consider following up"
    ELSE IF platform = "Google" THEN
        IF days_elapsed < 30 THEN "Under review"
        ELSE IF days_elapsed < 90 THEN "Still processing"
        ELSE "Follow-up recommended"
    ELSE
        IF days_elapsed < 30 THEN "Under review"
        ELSE IF days_elapsed < 90 THEN "Processing"
        ELSE "Follow-up needed"

\* estimated_completion with each tier closed at its bound
EstimatedCompletionThroughBound(platform, days_elapsed) ==
    IF platform = "Facebook" THEN
        IF days_elapsed <= 14 THEN <<14 - days_elapsed, 30 - days_elapsed>>
        ELSE IF days_elapsed <= 30 THEN <<30 - days_elapsed>>
        ELSE <<>>
    ELSE
        IF days_elapsed <= 30 THEN <<30 - days_elapsed, 90 - days_elapsed>>
        ELSE IF days_elapsed <= 90 THEN <<90 - days_elapsed>>
        ELSE <<>>

\* estimated_completion: the day counts its text shows, in order
EstimatedCompletion(platform, days_elapsed) ==
    IF platform = "Facebook" THEN
        IF days_elapsed < 14 THEN <<14 - days_elapsed, 30 - days_elapsed>>
        ELSE IF days_elapsed < 30 THEN <<30 - days_elapsed>>
        ELSE <<>>
    ELSE
        IF days_elapsed < 30 THEN <<30 - days_elapsed, 90 - days_elapsed>>
        ELSE IF days_elapsed < 90 THEN <<90 - days_elapsed>>
        ELSE <<>>

\* next_steps with the middle bracket closed at 60 days
NextStepsThrough60(days_elapsed) ==
    IF days_elapsed < 30 THEN <<"Wait for platform response", "Prepare additional documents">>
    ELSE IF days_elapsed <= 60 THEN <<"Monitor email", "Continue waiting">>
    ELSE <<"Send follow-up email", "Contact platform support directly">>

\* next_steps, by days elapsed alone
NextSteps(days_elapsed) ==
    IF days_elapsed < 30 THEN <<"Wait for platform response", "Prepare additional documents">>
    ELSE IF days_elapsed < 60 THEN <<"Monitor email", "Continue waiting">>
    ELSE <<"Send follow-up email", "Contact platform support directly">>

\* timeline_progress["under_review"]
UnderReview(days_elapsed) == IF days_elapsed < 90 THEN "In Progress" ELSE "Overdue"

\* list(tracking_data.keys())[:5]
AvailableCasesAll(tracking_data) ==
    [i \in 1..Len(tracking_data) |-> tracking_data[i].key]

AvailableCases(tracking_data) ==
    [i \in 1..(IF Len(tracking_data) < ListedCases THEN Len(tracking_data) ELSE ListedCases)
        |-> tracking_data[i].key]

\* The result for a case found in the store
FoundResult(case_id, case, t) ==
    LET days_elapsed == DaysElapsed(t, FromIsoFormat(case.created_date))
    IN  [NoResult EXCEPT
            !.op = "track",
            !.status = "found",
            !.case_id = case_id,
            !.platform = case.platform,
            !.deceased_name = case.deceased_name,
            !.executor_name = case.executor_name,
            !.created_date = case.created_date,
            !.days_elapsed = days_elapsed,
            !.current_status = CurrentStatus(case.platform, days_elapsed),
            !.estimated_completion = EstimatedCompletion(case.platform, days_elapsed),
            !.next_steps = NextSteps(days_elapsed),
            !.under_review = UnderReview(days_elapsed)]

\* The whole call at clock t: the dict it returns (it leaves the file as it is)
TrackCaseStatusLenient(file, case_id, t) ==
    IF file.kind = "object" /\ case_id \in Keys(file.entries)
    THEN FoundResult(case_id, Get(file.entries, case_id), t)
    ELSE [NoResult EXCEPT !.op = "track", !.status = "not_found",
            !.has_available_cases = (file.kind = "object"),
            !.available_cases = AvailableCases(file.entries)]

TrackCaseStatus(file, case_id, t) ==
    CASE file.kind = "missing" ->
            [NoResult EXCEPT !.op = "track", !.status = "not_found"]
      [] file.kind = "corrupt" ->
            [NoResult EXCEPT !.op = "track", !.status = "error"]
      [] file.kind = "nonmapping" ->
            [NoResult EXCEPT !.op = "track", !.raised = TRUE]
      [] file.kind = "object" ->
            IF case_id \notin Keys(file.entries)
            THEN [NoResult EXCEPT !.op = "track", !.status = "not_found",
                    !.has_available_cases = TRUE,
                    !.available_cases = AvailableCases(file.entries)]
            ELSE FoundResult(case_id, Get(file.entries, case_id), t)

----------------------------------------------------------------------------
(* Spec: one caller, a store that may already hold cases, seconds passing  *)

\* The requests of the earlier run that filled the store, in order
RequestSeq ==
    << [platform |-> "Google",    deceased_name |-> "Ann", executor_name |-> "Eve"],
       [platform |-> "Facebook",  deceased_name |-> "Ann", executor_name |-> "Eve"],
       [platform |-> "Apple",     deceased_name |-> "Bob", executor_name |-> "Max"],
       [platform |-> "Microsoft", deceased_name |-> "Ann", executor_name |-> "Eve"],
       [platform |-> "facebook",  deceased_name |-> "Bob", executor_name |-> "Max"] >>

OldRequest(i) == RequestSeq[((i - 1) % Len(RequestSeq)) + 1]

\* The file after n creations, one per second from second 0 on
RECURSIVE Populate(_)
Populate(n) ==
    IF n = 0 THEN Missing
    ELSE SendRecoveryEmail(Populate(n - 1), OldRequest(n), n - 1, "ok", "unconfigured").file

\* The clock when a run of Spec starts
Start == MaxOld

Idle == [c \in {1, 2} |-> "idle"]
NoLocal ==
    [c \in {1, 2} |-> [case_id |-> NoId, request |-> OldRequest(1), is_dict |-> FALSE,
                       tracking_data |-> <<>>, overlapped |-> FALSE]]

Init ==
    /\ now = Start
    /\ tracking_file \in {Missing, Populate(MaxOld)}
    /\ sends = 0
    /\ result = NoResult
    /\ pc = Idle
    /\ local = NoLocal

\* A call of send_recovery_email
Send(r, wr, mail) ==
    /\ sends < MaxSends
    /\ LET out == SendRecoveryEmail(tracking_file, r, now, wr, mail)
       IN  /\ tracking_file' = out.file
           /\ result' = [out.result EXCEPT !.request = r, !.write = wr,
                                           !.file_before = tracking_file.kind]
    /\ sends' = sends + 1
    /\ UNCHANGED <<now, pc, local>>

\* The identifiers a caller asks about: those in the store, one that a
\* creation at this second would get, and one nothing produces
Asked == FileKeys(tracking_file) \cup {MakeCaseId("Google", now), BogusId}

\* A call of track_case_status
TrackAndStore(case_id) ==
    /\ result' = [TrackCaseStatus(tracking_file, case_id, now) EXCEPT
                        !.asked = case_id, !.file_before = tracking_file.kind]
    /\ tracking_file' =
            IF result'.status = "found"
            THEN JsonDump(SetItem(tracking_file.entries, case_id,
                    [Get(tracking_file.entries, case_id) EXCEPT
                        !.status = result'.current_status,
                        !.last_updated = IsoFormat(now)]))
            ELSE tracking_file
    /\ UNCHANGED <<now, sends, pc, local>>

Track(case_id) ==
    /\ result' = [TrackCaseStatus(tracking_file, case_id, now) EXCEPT
                        !.asked = case_id, !.file_before = tracking_file.kind]
    /\ UNCHANGED <<now, tracking_file, sends, pc, local>>

\* A second passes
Tick ==
    /\ now < Start + MaxTicks
    /\ now' = now + 1
    /\ result' = NoResult
    /\ UNCHANGED <<tracking_file, sends, pc, local>>

\* Something outside the program removes the file or overwrites it
FileDamaged(file) ==
    /\ tracking_file # file
    /\ tracking_file' = file
    /\ result' = NoResult
    /\ UNCHANGED <<now, sends, pc, local>>

Next ==
    \/ \E r \in Requests, wr \in WriteOutcomes, mail \in MailOutcomes : Send(r, wr, mail)
    \/ \E case_id \in Asked : Track(case_id)
    \/ Tick
    \/ \E file \in {Missing, Corrupt, NonMapping} : FileDamaged(file)

Spec == Init /\ [][Next]_vars

----------------------------------------------------------------------------
(* LifeSpec: one caller following cases created on day 0 over the months   *)

LifeInit ==
    /\ now = 0
    /\ tracking_file = Missing
    /\ sends = 0
    /\ result = NoResult
    /\ pc = Idle
    /\ local = NoLocal

\* A call of send_recovery_email on day 0
LifeSend(r, wr, mail) ==
    /\ sends < MaxLifeSends
    /\ now < DaySeconds
    /\ LET out == SendRecoveryEmail(tracking_file, r, now, wr, mail)
       IN  /\ tracking_file' = out.file
           /\ result' = [out.result EXCEPT !.request = r, !.write = wr,
                                           !.file_before = tracking_file.kind]
    /\ sends' = sends + 1
    /\ UNCHANGED <<now, pc, local>>

\* A second passes
LifeTick ==
    /\ now % DaySeconds < MaxTicks
    /\ now' = now + 1
    /\ result' = NoResult
    /\ UNCHANGED <<tracking_file, sends, pc, local>>

\* A day passes
NextDay ==
    /\ now \div DaySeconds < MaxDays
    /\ now' = now + DaySeconds
    /\ result' = NoResult
    /\ UNCHANGED <<tracking_file, sends, pc, local>>

\* A day less one second passes
AlmostDay ==
    /\ now \div DaySeconds < MaxDays
    /\ now % DaySeconds > 0
    /\ now' = now + DaySeconds - 1
    /\ result' = NoResult
    /\ UNCHANGED <<tracking_file, sends, pc, local>>

LifeNext ==
    \/ \E r \in LifeRequests, wr \in WriteOutcomes, mail \in MailOutcomes : LifeSend(r, wr, mail)
    \/ \E case_id \in Asked : Track(case_id)
    \/ LifeTick
    \/ NextDay
    \/ AlmostDay
    \/ \E file \in {Missing, Corrupt, NonMapping} : FileDamaged(file)

LifeSpec == LifeInit /\ [][LifeNext]_vars

----------------------------------------------------------------------------
(* DocSpec: one caller whose send_recovery_email calls are followed with   *)
(* the document they generate and the mail configuration they find         *)

\* A call of send_recovery_email with all its arguments, under the values
\* of GMAIL_EMAIL and GMAIL_APP_PASSWORD and the outcome the SMTP
\* conversation would have
DocSend(r, f, wr, gmail_email, gmail_password, smtp) ==
    /\ sends < MaxDocSends
    /\ LET out == SendRecoveryEmailDocument(tracking_file, r, f, now, wr,
                                            gmail_email, gmail_password, smtp)
       IN  /\ tracking_file' = out.file
           /\ result' = [out.result EXCEPT !.request = r, !.write = wr,
                                           !.file_before = tracking_file.kind]
    /\ sends' = sends + 1
    /\ UNCHANGED <<now, pc, local>>

DocNext ==
    \/ \E r \in DocRequests, f \in Facts, wr \in WriteOutcomes,
          gmail_email \in EnvValues("exec@gmail.com"),
          gmail_password \in EnvValues("app-password"),
          smtp \in SmtpOutcomes :
            DocSend(r, f, wr, gmail_email, gmail_password, smtp)
    \/ \E file \in {Missing, Corrupt, NonMapping} : FileDamaged(file)

DocSpec == Init /\ [][DocNext]_vars

----------------------------------------------------------------------------
(* discover_digital_assets (tools/discovery_tools.py). Scores are in       *)
(* hundredths: confidence_score 0.95 is 95.                                *)

\* platform_database, in the order of the dict literal
platform_database ==
    << [platform |-> "google.com",    name |-> "Google",        success_rate |-> 85],
       [platform |-> "facebook.com",  name |-> "Facebook/Meta", success_rate |-> 80],
       [platform |-> "apple.com",     name |-> "Apple",         success_rate |-> 60],
       [platform |-> "microsoft.com", name |-> "Microsoft",     success_rate |-> 75],
       [platform |-> "amazon.com",    name |-> "Amazon",        success_rate |-> 70],
       [platform |-> "paypal.com",    name |-> "PayPal",        success_rate |-> 90] >>

common_platforms == <<"google.com", "facebook.com", "amazon.com">>
business_keywords == <<"business", "company", "freelance", "consultant", "LLC", "Inc">>
financial_keywords == <<"investment", "trading", "crypto", "bitcoin", "stock", "401k">>

\* The email addresses and the known_info texts of the calls the model makes
Emails ==
    { "ann@google.com", "Ann.Lee@Mail.Google.COM", "bob@facebook.com",
      "ann@paypal.com", "ann@amazon.com.evil.org", "ann@yahoo.com",
      "ann.lee.at.google.com", "ann@apple.com@yahoo.com" }

EmailLists == UNION { [1..n -> Emails] : n \in 0..MaxEmails }

KnownInfos ==
    { "", "retired teacher", "ran a small Business", "held Bitcoin and stock",
      "Freelance crypto trader", "Income statements" }

\* str.lower(), character by character
LowerChar(c) ==
    CASE c = "A" -> "a"
      [] c = "B" -> "b"
      [] c = "C" -> "c"
      [] c = "D" -> "d"
      [] c = "E" -> "e"
      [] c = "F" -> "f"
      [] c = "G" -> "g"
      [] c = "H" -> "h"
      [] c = "I" -> "i"
      [] c = "J" -> "j"
      [] c = "K" -> "k"
      [] c = "L" -> "l"
      [] c = "M" -> "m"
      [] c = "N" -> "n"
      [] c = "O" -> "o"
      [] c = "P" -> "p"
      [] c = "Q" -> "q"
      [] c = "R" -> "r"
      [] c = "S" -> "s"
      [] c = "T" -> "t"
      [] c = "U" -> "u"
      [] c = "V" -> "v"
      [] c = "W" -> "w"
      [] c = "X" -> "x"
      [] c = "Y" -> "y"
      [] c = "Z" -> "z"
      [] OTHER -> c

RECURSIVE LowerFrom(_, _)
LowerFrom(s, i) ==
    IF i > Len(s) THEN "" ELSE LowerChar(SubSeq(s, i, i)) \o LowerFrom(s, i + 1)

Lower(s) == LowerFrom(s, 1)

\* The positions of '@' in a string
AtSigns(s) == { i \in 1..Len(s) : SubSeq(s, i, i) = "@" }

Least(S) == CHOOSE m \in S : \A n \in S : m <= n

\* email.split('@')[1]: the text between the first '@' and the next one
SplitAtSecond(email) ==
    LET first == Least(AtSigns(email))
        later == { i \in AtSigns(email) : i > first }
        stop == IF later = {} THEN Len(email) ELSE Least(later) - 1
    IN  SubSeq(email, first + 1, stop)

\* priority with the threshold met at 80
MatchPriorityFrom80(success_rate) == IF success_rate >= 80 THEN "HIGH" ELSE "MEDIUM"

\* priority of a domain match
MatchPriority(success_rate) == IF success_rate > 80 THEN "HIGH" ELSE "MEDIUM"

\* The candidates one email adds, in the order of platform_database
DomainMatches(email) ==
    IF AtSigns(email) = {} THEN <<>>
    ELSE LET domain == Lower(SplitAtSecond(email))
             hits == SelectSeq(platform_database, LAMBDA info : Contains(domain, info.platform))
         IN  [ i \in 1..Len(hits) |->
                 [ platform |-> hits[i].platform,
                   platform_name |-> hits[i].name,
                   account_identifier |-> email,
                   confidence_score |-> 95,
                   discovery_method |-> "Email domain analysis",
                   success_rate |-> hits[i].success_rate,
                   priority |-> MatchPriority(hits[i].success_rate) ] ]

\* for email in deceased_emails: ...
RECURSIVE AnalyzeEmailDomains(_)
AnalyzeEmailDomains(deceased_emails) ==
    IF deceased_emails = <<>> THEN <<>>
    ELSE DomainMatches(Head(deceased_emails)) \o AnalyzeEmailDomains(Tail(deceased_emails))

Info(platform) ==
    LET i == CHOOSE j \in 1..Len(platform_database) : platform_database[j].platform = platform
    IN  platform_database[i]

\* The common platforms all added, matched by an email or not
CheckCommonPlatformsAll(discovered_assets, i) ==
    discovered_assets \o
    [ k \in 1..Len(common_platforms) |->
        [ platform |-> common_platforms[k],
          platform_name |-> Info(common_platforms[k]).name,
          account_identifier |-> "To be determined",
          confidence_score |-> 75,
          discovery_method |-> "Common platform inference",
          success_rate |-> Info(common_platforms[k]).success_rate,
          priority |-> "MEDIUM" ] ]

\* for platform in common_platforms: ... from the i-th one on
RECURSIVE CheckCommonPlatforms(_, _)
CheckCommonPlatforms(discovered_assets, i) ==
    IF i > Len(common_platforms) THEN discovered_assets
    ELSE LET platform == common_platforms[i]
             seen == \E k \in 1..Len(discovered_assets) : discovered_assets[k].platform = platform
             added ==
                 [ platform |-> platform,
                   platform_name |-> Info(platform).name,
                   account_identifier |-> "To be determined",
                   confidence_score |-> 75,
                   discovery_method |-> "Common platform inference",
                   success_rate |-> Info(platform).success_rate,
                   priority |-> "MEDIUM" ]
         IN  CheckCommonPlatforms(
                 IF seen THEN discovered_assets ELSE Append(discovered_assets, added), i + 1)

\* any(keyword.lower() in known_info.lower() for keyword in keywords)
AnyKeyword(keywords, known_info) ==
    \E i \in 1..Len(keywords) : Contains(Lower(known_info), Lower(keywords[i]))

BusinessCandidates ==
    << [ platform |-> "linkedin.com", platform_name |-> "LinkedIn",
         account_identifier |-> "Professional profile", confidence_score |-> 80,
         discovery_method |-> "Business context analysis",
         success_rate |-> 75, priority |-> "MEDIUM" ],
       [ platform |-> "domain_registrar", platform_name |-> "Domain Portfolio",
         account_identifier |-> "Various registrars", confidence_score |-> 60,
         discovery_method |-> "Business context analysis",
         success_rate |-> 65, priority |-> "MEDIUM" ] >>

FinancialCandidates ==
    << [ platform |-> "cryptocurrency_exchanges", platform_name |-> "Cryptocurrency Accounts",
         account_identifier |-> "Multiple exchanges possible", confidence_score |-> 70,
         discovery_method |-> "Financial context analysis",
         success_rate |-> 30, priority |-> "HIGH" ] >>

\* if known_info: ...
AnalyzeKnownInfo(known_info) ==
    IF known_info = "" THEN <<>>
    ELSE (IF AnyKeyword(business_keywords, known_info) THEN BusinessCandidates ELSE <<>>)
         \o (IF AnyKeyword(financial_keywords, known_info) THEN FinancialCandidates ELSE <<>>)

\* The sort key: (x["priority"] == "HIGH", x["confidence_score"])
SortKey(x) == <<IF x.priority = "HIGH" THEN 1 ELSE 0, x.confidence_score>>

KeyLess(a, b) == a[1] < b[1] \/ (a[1] = b[1] /\ a[2] < b[2])

\* x put in front of the entries whose key is not above its own
InsertBeforeEqual(sorted, x) ==
    LET ahead == { i \in 1..Len(sorted) : KeyLess(SortKey(x), SortKey(sorted[i])) }
        n == Cardinality(ahead)
    IN  SubSeq(sorted, 1, n) \o <<x>> \o SubSeq(sorted, n + 1, Len(sorted))

\* x put into a list in descending key order, behind the entries whose key
\* is not below its own
InsertDescending(sorted, x) ==
    LET ahead == { i \in 1..Len(sorted) : ~KeyLess(SortKey(sorted[i]), SortKey(x)) }
        n == Cardinality(ahead)
    IN  SubSeq(sorted, 1, n) \o <<x>> \o SubSeq(sorted, n + 1, Len(sorted))

\* list.sort(key=..., reverse=True): descending by key, and stable, so
\* entries with equal keys keep the order they had
RECURSIVE SortDescending(_, _)
SortDescending(sorted, rest) ==
    IF rest = <<>> THEN sorted
    ELSE SortDescending(InsertDescending(sorted, Head(rest)), Tail(rest))

\* The whole call: the dict it returns, with its arguments and the list as
\* it was before the sort beside it
DiscoverDigitalAssets(deceased_emails, known_info) ==
    LET matched == AnalyzeEmailDomains(deceased_emails)
        emitted == CheckCommonPlatforms(matched, 1) \o AnalyzeKnownInfo(known_info)
        discovered_assets == SortDescending(<<>>, emitted)
    IN  [ op |-> "discover",
          deceased_emails |-> deceased_emails,
          known_info |-> known_info,
          emitted |-> emitted,
          raised |-> FALSE,
          status |-> "success",
          total_assets_discovered |-> Len(discovered_assets),
          high_priority_assets |->
              Len(SelectSeq(discovered_assets, LAMBDA a : a.priority = "HIGH")),
          discovered_assets |-> discovered_assets ]

\* DiscoverSpec: one call of discover_digital_assets per run; the function
\* keeps nothing between calls

Discover(deceased_emails, known_info) ==
    /\ result = NoResult
    /\ result' = DiscoverDigitalAssets(deceased_emails, known_info)
    /\ UNCHANGED <<now, tracking_file, sends, pc, local>>

DiscoverNext ==
    \E deceased_emails \in EmailLists, known_info \in KnownInfos :
        Discover(deceased_emails, known_info)

DiscoverSpec == LifeInit /\ [][DiscoverNext]_vars

----------------------------------------------------------------------------
(* find_nearby_lawyers (death_note: tools/legal_tools.py, and the same     *)
(* text in agent.py). Ratings and distances are in tenths: rating 4.8 is   *)
(* 48, 2.3 miles is 23.                                                    *)

\* The dict literal lawyer_database, by zipcode prefix
lawyer_database ==
    ("021" :>
        << [ name |-> "Sarah J. Mitchell, Esq.", rating |-> 48, distance_miles |-> 23,
             consultation_fee |-> "$350", years_experience |-> 15 ],
           [ name |-> "Robert Chen, JD, LLM", rating |-> 49, distance_miles |-> 31,
             consultation_fee |-> "Free initial consultation", years_experience |-> 22 ],
           [ name |-> "Maria Rodriguez, Esq.", rating |-> 47, distance_miles |-> 45,
             consultation_fee |-> "$250", years_experience |-> 18 ] >>)
    @@ ("100" :>
        << [ name |-> "James Harrison, Esq.", rating |-> 49, distance_miles |-> 18,
             consultation_fee |-> "$500", years_experience |-> 25 ],
           [ name |-> "Dr. Lisa Wang, JD, PhD", rating |-> 48, distance_miles |-> 52,
             consultation_fee |-> "$450", years_experience |-> 12 ] >>)
    @@ ("900" :>
        << [ name |-> "Michael Thompson, Esq.", rating |-> 47, distance_miles |-> 34,
             consultation_fee |-> "$400", years_experience |-> 20 ],
           [ name |-> "Amanda Foster, JD", rating |-> 48, distance_miles |-> 87,
             consultation_fee |-> "Free 30-minute consultation", years_experience |-> 16 ] >>)
    @@ ("750" :>
        << [ name |-> "David Martinez, Esq.", rating |-> 49, distance_miles |-> 21,
             consultation_fee |-> "$300", years_experience |-> 19 ] >>)
    @@ ("600" :>
        << [ name |-> "Patricia O'Brien, JD, CPA", rating |-> 48, distance_miles |-> 42,
             consultation_fee |-> "$375", years_experience |-> 23 ] >>)

nearby_prefixes ==
    ("022" :> "021") @@ ("024" :> "021") @@ ("101" :> "100")
    @@ ("902" :> "900") @@ ("787" :> "750") @@ ("606" :> "600")

\* The zipcodes and radii (in miles) of the calls the model makes
Zipcodes ==
    { "02110", "02215", "02445", "10001", "10128", "90012", "90210",
      "78701", "60601", "99999", "02" }

Radii == {3, 10, 15, 25}

\* zipcode[:3] if len(zipcode) >= 3 else ""
ZipPrefix(zipcode) == IF Len(zipcode) >= 3 THEN SubSeq(zipcode, 1, 3) ELSE ""

\* The database a call works on if the dict outlived the call before it
DatabaseKept(earlier) ==
    IF earlier.op = "lawyers" THEN earlier.lawyer_database ELSE lawyer_database

\* The database a call works on: the dict literal is evaluated in the
\* function body, so every call starts from the listed values whatever
\* the call before it left behind
DatabaseAtCall(earlier) == lawyer_database

\* for lawyer in area_lawyers: lawyer["distance_miles"] += 10
Penalise(area_lawyers) ==
    [ i \in DOMAIN area_lawyers |->
        [area_lawyers[i] EXCEPT !.distance_miles = @ + DistancePenalty] ]

\* The sort key without the sign: (x["rating"], x["distance_miles"])
LawyerKeyFarFirst(x) == <<x.rating, x.distance_miles>>

\* The sort key: (x["rating"], -x["distance_miles"])
LawyerKey(x) == <<x.rating, 0 - x.distance_miles>>

\* x put into a list in descending key order, behind the entries whose key
\* is not below its own
InsertLawyer(sorted, x) ==
    LET ahead == { i \in 1..Len(sorted) : ~KeyLess(LawyerKey(sorted[i]), LawyerKey(x)) }
        n == Cardinality(ahead)
    IN  SubSeq(sorted, 1, n) \o <<x>> \o SubSeq(sorted, n + 1, Len(sorted))

\* filtered_lawyers.sort(key=..., reverse=True)
RECURSIVE SortLawyers(_, _)
SortLawyers(sorted, rest) ==
    IF rest = <<>> THEN sorted
    ELSE SortLawyers(InsertLawyer(sorted, Head(rest)), Tail(rest))

\* The radius filter with every entry let through
WithinAnyRadius(lawyer, radius_miles) == TRUE

\* lawyer["distance_miles"] <= radius_miles
WithinRadius(lawyer, radius_miles) == lawyer.distance_miles <= radius_miles * 10

\* str.replace("$", ""), character by character
RECURSIVE WithoutDollar(_, _)
WithoutDollar(s, i) ==
    IF i > Len(s) THEN ""
    ELSE (IF SubSeq(s, i, i) = "$" THEN "" ELSE SubSeq(s, i, i)) \o WithoutDollar(s, i + 1)

\* str.split()[0]: the first run of characters that are not spaces; "" stands
\* for the IndexError of an empty split
FirstWord(s) ==
    LET filled == { i \in 1..Len(s) : SubSeq(s, i, i) # " " }
    IN  IF filled = {} THEN ""
        ELSE LET start == Least(filled)
                 gaps == { i \in (start + 1)..Len(s) : SubSeq(s, i, i) = " " }
                 stop == IF gaps = {} THEN Len(s) ELSE Least(gaps) - 1
             IN  SubSeq(s, start, stop)

Digit(c) ==
    CASE c = "0" -> 0 [] c = "1" -> 1 [] c = "2" -> 2 [] c = "3" -> 3 [] c = "4" -> 4
      [] c = "5" -> 5 [] c = "6" -> 6 [] c = "7" -> 7 [] c = "8" -> 8 [] c = "9" -> 9
      [] OTHER -> 0 - 1

\* int(word): <<n>>, or <<>> for the ValueError of a word that is not a number
RECURSIVE IntOfDigits(_, _)
IntOfDigits(word, n) ==
    IF n = 0 THEN 0 ELSE 10 * IntOfDigits(word, n - 1) + Digit(SubSeq(word, n, n))

ParseInt(word) ==
    IF word # "" /\ \A i \in 1..Len(word) : Digit(SubSeq(word, i, i)) >= 0
    THEN <<IntOfDigits(word, Len(word))>> ELSE <<>>

\* The fees with every entry counted, a free one as 0
FeeAmountCountingFree(fee) ==
    IF Contains(fee, "$") /\ ~Contains(fee, "Free")
    THEN ParseInt(FirstWord(WithoutDollar(fee, 1))) ELSE <<0>>

\* The amount one consultation_fee adds to fees: none for a fee without
\* "$" or with "Free", none when int() raises
FeeAmount(fee) ==
    IF Contains(fee, "$") /\ ~Contains(fee, "Free")
    THEN ParseInt(FirstWord(WithoutDollar(fee, 1))) ELSE <<>>

RECURSIVE Fees(_)
Fees(lawyers) ==
    IF lawyers = <<>> THEN <<>>
    ELSE FeeAmount(Head(lawyers).consultation_fee) \o Fees(Tail(lawyers))

RECURSIVE Sum(_)
Sum(fees) == IF fees = <<>> THEN 0 ELSE Head(fees) + Sum(Tail(fees))

\* _calculate_average_fee: f"${int(sum(fees) / len(fees))}" or "Varies"
CalculateAverageFee(lawyers) ==
    LET fees == Fees(lawyers)
    IN  IF fees # <<>> THEN "$" \o ToString(Sum(fees) \div Len(fees)) ELSE "Varies"

\* filtered_lawyers[:5]
TopLawyers(filtered_lawyers) ==
    SubSeq(filtered_lawyers, 1,
           IF Len(filtered_lawyers) < ReturnedLawyers
           THEN Len(filtered_lawyers) ELSE ReturnedLawyers)

\* The whole call on a database: the dict it returns, with the database as
\* the call leaves it beside it
FindNearbyLawyers(database, zipcode, radius_miles) ==
    LET zip_prefix == ZipPrefix(zipcode)
        direct == IF zip_prefix \in DOMAIN database THEN database[zip_prefix] ELSE <<>>
        alternate_prefix ==
            IF direct = <<>> /\ zip_prefix \in DOMAIN nearby_prefixes
            THEN nearby_prefixes[zip_prefix] ELSE ""
        after ==
            IF alternate_prefix \in DOMAIN database
            THEN [database EXCEPT ![alternate_prefix] = Penalise(@)]
            ELSE database
        area_lawyers ==
            IF direct # <<>> THEN direct
            ELSE IF alternate_prefix \in DOMAIN after THEN after[alternate_prefix]
            ELSE <<>>
        filtered_lawyers ==
            SortLawyers(<<>>, SelectSeq(area_lawyers,
                                 LAMBDA lawyer : WithinRadius(lawyer, radius_miles)))
    IN  [ op |-> "lawyers",
          zipcode |-> zipcode,
          radius_miles |-> radius_miles,
          raised |-> FALSE,
          status |-> "success",
          lawyers_found |-> Len(filtered_lawyers),
          lawyers |-> TopLawyers(filtered_lawyers),
          average_consultation_fee |-> CalculateAverageFee(filtered_lawyers),
          lawyer_database |-> after ]

\* LawSpec: calls of find_nearby_lawyers, one after another

FindLawyers(zipcode, radius_miles) ==
    /\ result' = [earlier |-> IF result.op = "lawyers" THEN result.zipcode ELSE "none"]
                    @@ FindNearbyLawyers(DatabaseAtCall(result), zipcode, radius_miles)
    /\ UNCHANGED <<now, tracking_file, sends, pc, local>>

LawNext == \E zipcode \in Zipcodes, radius_miles \in Radii : FindLawyers(zipcode, radius_miles)

LawSpec == LifeInit /\ [][LawNext]_vars

----------------------------------------------------------------------------
(* analyze_email_content (tools/discovery_tools.py).  email_content is     *)
(* taken line by line: '.' matches no line break and no pattern holds one, *)
(* so every match of re.findall lies within one line.                      *)

MaxLines == 2       \* lines of email_content in a run of AnalyzeSpec

\* patterns, category by category, in the order of the dict literal.  words
\* are the literal parts, lower-cased for re.IGNORECASE; gap tells whether
\* ".*" stands before the group; group is what the group matches:
\* "word" \w+, "com" \w+\.com, "money" \$[\d,]+\.?\d*
patterns ==
    << [category |-> "account_confirmations", words |-> <<"welcome to ">>,
            gap |-> FALSE, group |-> "word"],
       [category |-> "account_confirmations", words |-> <<"account", "created">>,
            gap |-> TRUE, group |-> "com"],
       [category |-> "account_confirmations", words |-> <<"confirm", "account">>,
            gap |-> TRUE, group |-> "com"],
       [category |-> "account_confirmations", words |-> <<"verify", "email">>,
            gap |-> TRUE, group |-> "com"],
       [category |-> "financial_statements", words |-> <<"statement", "from">>,
            gap |-> TRUE, group |-> "word"],
       [category |-> "financial_statements", words |-> <<"balance">>,
            gap |-> TRUE, group |-> "money"],
       [category |-> "financial_statements", words |-> <<"transaction">>,
            gap |-> TRUE, group |-> "com"],
       [category |-> "financial_statements", words |-> <<"payment", "received">>,
            gap |-> TRUE, group |-> "word"],
       [category |-> "subscription_services", words |-> <<"subscription">>,
            gap |-> TRUE, group |-> "com"],
       [category |-> "subscription_services", words |-> <<"membership">>,
            gap |-> TRUE, group |-> "word"],
       [category |-> "subscription_services", words |-> <<"billing">>,
            gap |-> TRUE, group |-> "com"],
       [category |-> "subscription_services", words |-> <<"auto", "renew">>,
            gap |-> TRUE, group |-> "word"] >>

\* The keys findings has before the loop, confidence_score aside
findings_keys == {"account_confirmations", "financial_indicators", "subscription_services"}

\* Lines an email may hold
Lines ==
    { "Welcome to Netflix", "Account created at a.com", "Confirm your account b.com",
      "Verify email c.COM", "Statement from Chase", "Balance $1,250.75 due",
      "Transaction on shop.com", "Payment received thanks", "Subscription e.com",
      "Membership gold", "Billing f.com now", "Auto renew on", "Hello there" }

Texts == UNION { [1..n -> Lines] : n \in 0..MaxLines }

\* \w and \d
WordChar(c) ==
    LowerChar(c) \in
        { "a", "b", "c", "d", "e", "f", "g", "h", "i", "j", "k", "l", "m",
          "n", "o", "p", "q", "r", "s", "t", "u", "v", "w", "x", "y", "z",
          "0", "1", "2", "3", "4", "5", "6", "7", "8", "9", "_" }

DigitChar(c) == c \in { "0", "1", "2", "3", "4", "5", "6", "7", "8", "9" }

CharAt(s, i) == IF i \in 1..Len(s) THEN SubSeq(s, i, i) ELSE ""

\* The positions where t starts in s
Starts(s, t) == { i \in 1..(Len(s) - Len(t) + 1) : SubSeq(s, i, i + Len(t) - 1) = t }

Greatest(S) == CHOOSE m \in S : \A n \in S : m >= n

\* class is "word" \w, "digit" \d or "amount" [\d,]
InClass(class, c) ==
    CASE class = "word" -> WordChar(c)
      [] class = "digit" -> DigitChar(c)
      [] class = "amount" -> DigitChar(c) \/ c = ","

\* The end of the longest run of characters of a class that starts at i
\* (i - 1 when the character at i is not of the class)
RECURSIVE RunEnd(_, _, _)
RunEnd(s, i, class) ==
    IF i <= Len(s) /\ InClass(class, SubSeq(s, i, i)) THEN RunEnd(s, i + 1, class) ELSE i - 1

\* The first position after the literal parts words[k..], found in order
\* from position from on, each as early as it can be; 0 when one is missing
RECURSIVE AfterWords(_, _, _, _)
AfterWords(lowered, words, k, from) ==
    IF k > Len(words) THEN from
    ELSE LET found == { i \in Starts(lowered, words[k]) : i >= from }
         IN  IF found = {} THEN 0
             ELSE AfterWords(lowered, words, k + 1, Least(found) + Len(words[k]))

\* \$[\d,]+\.?\d* from the '$' at position i: the position of its last character
MoneyEnd(line, i) ==
    LET amount == RunEnd(line, i + 1, "amount")
    IN  IF CharAt(line, amount + 1) = "."
        THEN RunEnd(line, amount + 2, "digit")
        ELSE amount

\* The group of a pattern with ".*" before it: ".*" is greedy, so the group
\* starts at the last position from which it can match
GreedyGroup(line, group, from) ==
    LET places ==
            CASE group = "word" ->
                    { i \in from..Len(line) : WordChar(SubSeq(line, i, i)) }
              [] group = "com" ->
                    { i \in from..(Len(line) - 4) :
                        /\ WordChar(SubSeq(line, i, i))
                        /\ Lower(SubSeq(line, i + 1, i + 4)) = ".com" }
              [] group = "money" ->
                    { i \in from..(Len(line) - 1) :
                        /\ SubSeq(line, i, i) = "$"
                        /\ InClass("amount", SubSeq(line, i + 1, i + 1)) }
        at == Greatest(places)
    IN  IF places = {} THEN <<>>
        ELSE CASE group = "word" -> << SubSeq(line, at, at) >>
               [] group = "com" -> << SubSeq(line, at, at + 4) >>
               [] group = "money" -> << SubSeq(line, at, MoneyEnd(line, at)) >>

\* The groups of a pattern without ".*": one for each place where the
\* literal part is followed by a word, from left to right
RECURSIVE AdjacentGroups(_, _, _)
AdjacentGroups(line, word, from) ==
    LET found == { i \in Starts(Lower(line), word) :
                        i >= from /\ WordChar(CharAt(line, i + Len(word))) }
        at == Least(found) + Len(word)
        stop == RunEnd(line, at, "word")
    IN  IF found = {} THEN <<>>
        ELSE << SubSeq(line, at, stop) >> \o AdjacentGroups(line, word, stop + 1)

\* re.findall(pattern, line, re.IGNORECASE)
FindallLine(pattern, line) ==
    IF pattern.gap
    THEN LET from == AfterWords(Lower(line), pattern.words, 1, 1)
         IN  IF from = 0 THEN <<>> ELSE GreedyGroup(line, pattern.group, from)
    ELSE AdjacentGroups(line, pattern.words[1], 1)

\* The matches of each pattern in each line
LineMatches == [line \in Lines |-> [p \in DOMAIN patterns |-> FindallLine(patterns[p], line)]]

\* re.findall(pattern, email_content, re.IGNORECASE)
RECURSIVE Findall(_, _, _)
Findall(p, email_content, i) ==
    IF i > Len(email_content) THEN <<>>
    ELSE LineMatches[email_content[i]][p] \o Findall(p, email_content, i + 1)

\* The loop over the patterns from pattern p on: findings[category] is
\* extended with the matches of a pattern that has some; a category that is
\* no key of findings raises KeyError
RECURSIVE AnalyzeFrom(_, _, _)
AnalyzeFrom(email_content, findings, p) ==
    IF p > Len(patterns) THEN [raised |-> FALSE, findings |-> findings]
    ELSE LET category == patterns[p].category
             matches == Findall(p, email_content, 1)
         IN  IF matches = <<>> THEN AnalyzeFrom(email_content, findings, p + 1)
             ELSE IF category \notin DOMAIN findings
                  THEN [raised |-> TRUE, findings |-> findings]
                  ELSE AnalyzeFrom(email_content,
                            [findings EXCEPT ![category] = @ \o matches], p + 1)

\* sum(len(findings[key]) ...) over the keys of a set
RECURSIVE TotalFindings(_, _)
TotalFindings(findings, keys) ==
    IF keys = {} THEN 0
    ELSE LET key == CHOOSE k \in keys : TRUE
         IN  Len(findings[key]) + TotalFindings(findings, keys \ {key})

\* min(total_findings * 0.1, 1.0), in tenths
ConfidenceScore(total_findings) == IF total_findings < 10 THEN total_findings ELSE 10

\* The whole call: the dict it returns, or the fault it raises
AnalyzeEmailContent(email_content) ==
    LET out == AnalyzeFrom(email_content, [key \in findings_keys |-> <<>>], 1)
    IN  IF out.raised
        THEN [ op |-> "analyze", email_content |-> email_content,
               raised |-> TRUE, status |-> "" ]
        ELSE [ op |-> "analyze", email_content |-> email_content,
               raised |-> FALSE, status |-> "success",
               analysis_results |-> out.findings,
               confidence_score |->
                    ConfidenceScore(TotalFindings(out.findings, findings_keys)) ]

\* AnalyzeSpec: one call of analyze_email_content per run; the function
\* keeps nothing between calls

Analyze(email_content) ==
    /\ result = NoResult
    /\ result' = AnalyzeEmailContent(email_content)
    /\ UNCHANGED <<now, tracking_file, sends, pc, local>>

AnalyzeNext == \E email_content \in Texts : Analyze(email_content)

AnalyzeSpec == LifeInit /\ [][AnalyzeNext]_vars

----------------------------------------------------------------------------
(* get_platform_form_instructions (agent.py).  The instructions text of a  *)
(* guide is a constant of the guide and is named by its first line.        *)

platform_guides ==
    [ Google |->
        [ form_url |-> "https://support.google.com/accounts/contact/deceased",
          form_name |-> "Google Deceased User Notification",
          estimated_time |-> "10-15 minutes to complete",
          processing_time |-> "30-90 days",
          success_rate |-> "85%",
          instructions |-> "GOOGLE ACCOUNT RECOVERY FORM",
          required_documents |->
            << "Death certificate (certified copy)", "Government-issued photo ID",
               "Proof of relationship to deceased" >> ],
      Facebook |->
        [ form_url |-> "https://www.facebook.com/help/contact/234739086860192",
          form_name |-> "Facebook Memorialization Request",
          estimated_time |-> "5-10 minutes to complete",
          processing_time |-> "14-30 days",
          success_rate |-> "80%",
          instructions |-> "FACEBOOK MEMORIALIZATION FORM",
          required_documents |->
            << "Death certificate or obituary", "Government-issued photo ID",
               "Proof of relationship (for data requests)" >> ] ]

\* The platform names a caller asks instructions for
GuidePlatforms == {"Google", "Facebook", "Apple", "Microsoft", "Yahoo", "google"}

\* The list in the error result
available_platforms == <<"Google", "Facebook", "Apple", "Microsoft">>

\* The whole call: the dict it returns
GetPlatformFormInstructions(platform) ==
    IF platform \notin DOMAIN platform_guides
    THEN [ op |-> "instructions", asked_platform |-> platform, raised |-> FALSE,
           status |-> "error",
           message |-> "Form instructions not available for " \o platform,
           available_platforms |-> available_platforms ]
    ELSE LET guide == platform_guides[platform]
         IN  [ op |-> "instructions", asked_platform |-> platform, raised |-> FALSE,
               status |-> "success",
               platform |-> platform,
               form_url |-> guide.form_url,
               form_name |-> guide.form_name,
               estimated_completion_time |-> guide.estimated_time,
               processing_time |-> guide.processing_time,
               success_rate |-> guide.success_rate,
               instructions |-> guide.instructions,
               required_documents |-> guide.required_documents,
               summary |-> "Complete the " \o guide.form_name \o " at " \o guide.form_url
                           \o ". Expected processing time: " \o guide.processing_time \o "." ]

\* GuideSpec: a caller asks for form instructions and sends recovery emails

Instruct(platform) ==
    /\ result' = GetPlatformFormInstructions(platform)
    /\ UNCHANGED <<now, tracking_file, sends, pc, local>>

GuideNext ==
    \/ \E platform \in GuidePlatforms : Instruct(platform)
    \/ \E r \in Requests, wr \in WriteOutcomes, mail \in MailOutcomes : Send(r, wr, mail)

GuideSpec == Init /\ [][GuideNext]_vars

----------------------------------------------------------------------------
(* ConcSpec: two callers run send_recovery_email on the same file, their   *)
(* steps interleaved.  The steps are the places where the call reads the   *)
(* clock or touches the file: the case_id (line 109), the load and the     *)
(* item assignment (113-130), open(..., 'w'), which truncates the file     *)
(* (132), and json.dump with the close of the file (133).  No write is     *)
(* denied and nothing else touches the file.                               *)

Callers == {1, 2}
Other(c) == 3 - c

\* a caller between its load and the end of its dump
InCycle(c) == pc[c] \in {"open", "dump"}

\* line 109
BeginSend(c, r) ==
    /\ pc[c] = "idle"
    /\ pc' = [pc EXCEPT ![c] = "load"]
    /\ local' = [local EXCEPT ![c] =
            [@ EXCEPT !.case_id = MakeCaseId(r.platform, now), !.request = r]]
    /\ UNCHANGED <<now, tracking_file, sends, result>>

\* lines 113-130; overlapped (a ghost of the model) records that the other
\* caller was between its load and the end of its dump
LoadStep(c) ==
    /\ pc[c] = "load"
    /\ LET loaded == LoadForSend(tracking_file)
           mine == local[c]
       IN  /\ local' = [d \in Callers |->
                    IF d = c
                    THEN [mine EXCEPT
                            !.is_dict = loaded.is_dict,
                            !.tracking_data =
                                IF loaded.is_dict
                                THEN SetItem(loaded.data, mine.case_id,
                                             CaseRecord(mine.case_id, mine.request, now))
                                ELSE <<>>,
                            !.overlapped = @ \/ InCycle(Other(c))]
                    ELSE [local[d] EXCEPT !.overlapped = @ \/ InCycle(d)]]
           /\ pc' = [pc EXCEPT ![c] = IF loaded.is_dict THEN "open" ELSE "done"]
    /\ UNCHANGED <<now, tracking_file, sends, result>>

\* line 132: the file is empty until the dump
OpenStep(c) ==
    /\ pc[c] = "open"
    /\ tracking_file' = Corrupt
    /\ pc' = [pc EXCEPT ![c] = "dump"]
    /\ UNCHANGED <<now, sends, result, local>>

\* line 133, and the return of the call with its case_id
DumpStep(c) ==
    /\ pc[c] = "dump"
    /\ tracking_file' = SaveFile(tracking_file, local[c].tracking_data, "ok")
    /\ pc' = [pc EXCEPT ![c] = "done"]
    /\ UNCHANGED <<now, sends, result, local>>

ConcNext ==
    \/ \E c \in Callers, r \in Requests : BeginSend(c, r)
    \/ \E c \in Callers : LoadStep(c)
    \/ \E c \in Callers : OpenStep(c)
    \/ \E c \in Callers : DumpStep(c)
    \/ Tick

ConcSpec == Init /\ [][ConcNext]_vars

----------------------------------------------------------------------------
(* Properties *)

\* The tier a current_status text stands for: 1 under review, 2 the middle
\* tier, 3 follow-up, 0 anything else
TierRank(current_status) ==
    CASE current_status = "Under review" -> 1
      [] current_status \in {"Should hear back soon", "Still processing", "Processing"} -> 2
      [] current_status \in {"Consider following up", "Follow-up recommended", "Follow-up needed"} -> 3
      [] OTHER -> 0

\* The tier the reference table gives a platform after days_elapsed days
TableRank(platform, days_elapsed) ==
    IF days_elapsed < platform_info(platform).lower THEN 1
    ELSE IF days_elapsed < platform_info(platform).upper THEN 2
    ELSE 3

Found == result.op = "track" /\ result.status = "found"

\* A step that is a call of one of the two tool functions
CallStep == result'.op \in {"send", "track"}
SendStep == result'.op = "send"
TrackStep == result'.op = "track"

\* The send_recovery_email call of this step stored its record
Stored == result'.write = "ok" /\ result'.file_before # "nonmapping"

\* C1 (as claimed): for a platform of the reference table, a found status
\* result shows the under-review tier exactly below the table's lower bound,
\* the middle tier from the lower bound to below the upper bound, and the
\* follow-up tier from the upper bound on.
C1_TierFollowsReferenceTable ==
    (Found /\ InTable(result.platform))
        => TierRank(result.current_status) = TableRank(result.platform, result.days_elapsed)

\* C2: when the store is readable (or not yet there) and the write succeeds,
\* a send_recovery_email call followed immediately by track_case_status of
\* the case_id it returned yields status found with that case_id, the
\* platform, deceased_name and executor_name of the call, the created_date
\* written by it, and days_elapsed = 0.
C2_CreateThenTrackRoundTrip ==
    [][ ( /\ result.op = "send"
          /\ result.write = "ok"
          /\ result.file_before \in {"missing", "object"}
          /\ TrackStep
          /\ result'.asked = result.case_id )
        => ( /\ result'.status = "found"
             /\ ~result'.raised
             /\ result'.case_id = result.case_id
             /\ result'.platform = result.request.platform
             /\ result'.deceased_name = result.request.deceased_name
             /\ result'.executor_name = result.request.executor_name
             /\ result'.created_date = IsoFormat(now)
             /\ result'.days_elapsed = 0 ) ]_vars

\* C2 witness: a status query found a case that was created in this very
\* second, in a store that held other cases before
C2_Witness ==
    /\ Found
    /\ FromIsoFormat(result.created_date) = now
    /\ result.days_elapsed = 0
    /\ Len(tracking_file.entries) > MaxOld

BothDone == pc[1] = "done" /\ pc[2] = "done"

\* The file holds the record that caller c made for its case_id
Kept(c) ==
    /\ local[c].case_id \in FileKeys(tracking_file)
    /\ Get(tracking_file.entries, local[c].case_id)
         = Get(local[c].tracking_data, local[c].case_id)

\* C5: when both calls have returned, the file is what one of them dumped
\* (the last write wins), and when their cycles from load to dump did not
\* overlap and their case_ids differ the file holds the records of both.
C5_LastWriteWinsAndSerialCallsKeepBoth ==
    BothDone =>
        /\ tracking_file \in { JsonDump(local[c].tracking_data) : c \in Callers }
        /\ \E c \in Callers : Kept(c)
        /\ ( /\ local[1].case_id # local[2].case_id
             /\ ~local[1].overlapped
             /\ ~local[2].overlapped )
           => (Kept(1) /\ Kept(2))

\* C5 witness: both calls have returned different case_ids after their
\* cycles overlapped, and the file holds the record of only one of them
C5_Witness ==
    /\ BothDone
    /\ local[1].case_id # local[2].case_id
    /\ local[1].overlapped
    /\ Cardinality({local[1].case_id, local[2].case_id} \cap FileKeys(tracking_file)) = 1

\* C6: a status query for an identifier that is not a key of a store that is
\* readable (or not yet there) returns not_found; for a non-empty store the
\* result lists the first keys of the store in store order, at most 5 of
\* them, and all of them when the store holds 5 or fewer.
C6_NotFoundListsFirstFiveKeys ==
    ( /\ result.op = "track"
      /\ tracking_file.kind \in {"missing", "object"}
      /\ result.asked \notin FileKeys(tracking_file) )
    => /\ result.status = "not_found"
       /\ ~result.raised
       /\ (tracking_file.kind = "object" /\ tracking_file.entries # <<>>) =>
            /\ result.has_available_cases
            /\ Len(result.available_cases) <= 5
            /\ Len(result.available_cases) <= Len(tracking_file.entries)
            /\ \A i \in DOMAIN result.available_cases :
                 result.available_cases[i] = tracking_file.entries[i].key
            /\ Len(tracking_file.entries) <= 5 =>
                 { result.available_cases[i] : i \in DOMAIN result.available_cases }
                    = FileKeys(tracking_file)

\* C6 witness: a not_found result lists 5 keys of a store that holds more
C6_Witness ==
    /\ result.op = "track"
    /\ result.status = "not_found"
    /\ Len(tracking_file.entries) > 5
    /\ Len(result.available_cases) = 5

C8_ErrorOnlyForUnparseableStore ==
    result.op = "track" =>
        /\ tracking_file.kind = "corrupt" => result.status = "error"
        /\ result.status = "error" => tracking_file.kind = "corrupt"
        /\ tracking_file.kind = "missing" => result.status = "not_found"
        /\ (tracking_file.kind = "object" /\ result.asked \notin FileKeys(tracking_file))
             => result.status = "not_found"
        /\ (tracking_file.kind = "object" /\ result.asked \in FileKeys(tracking_file))
             => result.status = "found"

\* C8 witness: a status query has returned error
C8_Witness == result.op = "track" /\ result.status = "error" /\ ~result.raised

\* The current_status a query for the case under key k would show now
ShownStatus(file, k, t) == FoundResult(k, Get(file.entries, k), t).current_status

\* C9: a status query leaves the store as it is; the stored status of every
\* record is "submitted" whatever the queries have shown; and the tier shown
\* for a record is the same whatever its fields other than platform and
\* created_date hold.
C9_QueriesNeverWriteTheStore ==
    /\ [][ TrackStep => tracking_file' = tracking_file ]_vars
    /\ [](\A i \in DOMAIN tracking_file.entries :
            LET case == tracking_file.entries[i].rec
            IN  /\ case.status = "submitted"
                /\ \A r \in Requests, st \in {"submitted", "Follow-up needed"} :
                     FoundResult(case.case_id,
                        [case EXCEPT !.deceased_name = r.deceased_name,
                                     !.executor_name = r.executor_name,
                                     !.status = st,
                                     !.last_updated = IsoFormat(now)], now).current_status
                     = FoundResult(case.case_id, case, now).current_status)

\* C9 witness: a status query has shown a tier past under review, and the
\* stored status of the case is still "submitted"
C9_Witness ==
    /\ Found
    /\ TierRank(result.current_status) = 3
    /\ Get(tracking_file.entries, result.case_id).status = "submitted"

\* C10: as the clock advances, the tier shown for a case never moves back in
\* the order under review, middle tier, follow-up: once follow-up, always
\* follow-up; and every found result shows one of these three tiers.
C10_TierNeverMovesBack ==
    /\ [][ \A k \in FileKeys(tracking_file) \cap FileKeys(tracking_file') :
             TierRank(ShownStatus(tracking_file', k, now'))
                >= TierRank(ShownStatus(tracking_file, k, now)) ]_vars
    /\ [](Found => TierRank(result.current_status) \in {1, 2, 3})

\* C10 witness: a status query shows follow-up for a case on a later day
\* than the one on which it first could
C10_Witness ==
    /\ Found
    /\ TierRank(result.current_status) = 3
    /\ result.days_elapsed > 90

\* The three next_steps lists of track_case_status
WaitSteps == <<"Wait for platform response", "Prepare additional documents">>
MonitorSteps == <<"Monitor email", "Continue waiting">>
FollowUpSteps == <<"Send follow-up email", "Contact platform support directly">>

\* C11 as stated: in every found result next_steps has 1 or 2 entries and
\* follows elapsed days alone: the wait actions below 30 days, the monitor
\* actions from 30 to 60 days inclusive, the follow-up actions above 60 days.
C11_NextStepsMonitorThrough60 ==
    Found =>
      ( /\ Len(result.next_steps) \in {1, 2}
        /\ result.days_elapsed < 30 => result.next_steps = WaitSteps
        /\ (result.days_elapsed >= 30 /\ result.days_elapsed <= 60)
              => result.next_steps = MonitorSteps
        /\ result.days_elapsed > 60 => result.next_steps = FollowUpSteps)

\* C11: in every found result next_steps has 2 entries and follows elapsed
\* days alone, whatever the platform: the wait actions below 30 days, the
\* monitor actions from 30 to 59 days, the follow-up actions from 60 days on.
C11_NextStepsMonitorBelow60 ==
    Found =>
      ( /\ Len(result.next_steps) = 2
        /\ result.days_elapsed < 30 => result.next_steps = WaitSteps
        /\ (result.days_elapsed >= 30 /\ result.days_elapsed < 60)
              => result.next_steps = MonitorSteps
        /\ result.days_elapsed >= 60 => result.next_steps = FollowUpSteps)

\* C11 witness: a status query on the 60th day shows the follow-up actions
C11_Witness ==
    /\ Found
    /\ result.days_elapsed = 60
    /\ result.next_steps = FollowUpSteps

\* The last step was a send_recovery_email call followed with its document
Sent == result.op = "send" /\ "email_preview" \in DOMAIN result

\* The document the call of the last step generated
Document ==
    [subject |-> Subject(result.request),
     text |-> Body(result.request, result.facts, platform_info(result.request.platform))]

\* C12: whatever the outcome (sent, error, demo), the result of
\* send_recovery_email carries the whole generated document, the full
\* subject line and the full body text, the same in all three outcomes.
C12_ResultCarriesWholeDocument ==
    Sent =>
      ( /\ result.status \in {"sent", "error", "demo"}
        /\ result.email_preview.subject = Document.subject
        /\ result.email_preview.body_preview = Document.text )

BodyHasEveryField ==
    \A field \in { result.request.platform, result.request.deceased_name,
                   result.request.executor_name, result.facts.deceased_email,
                   result.facts.deceased_date, result.facts.executor_email,
                   result.facts.executor_relationship,
                   result.facts.available_documents } :
        Contains(Document.text, field)

\* C14: for a platform of the reference table, the body of the generated
\* document contains every input field verbatim, and the subject line
\* contains the deceased name and the platform name.
C14_BodyHasFieldsSubjectNamesPlatform ==
    (Sent /\ InTable(result.request.platform)) =>
      ( /\ BodyHasEveryField
        /\ Contains(Document.subject, result.request.deceased_name)
        /\ Contains(Document.subject, result.request.platform) )

\* C15: a call for a platform that is not a key of the reference table
\* returns sent, error or demo by the mail configuration alone; its
\* document and its message are bound to Google's entry (support address,
\* process, timeline, form URL); and its case is recorded under its
\* case_id whenever the store takes the write.
C15_UnknownPlatformUsesDefaultEntry ==
    (Sent /\ ~InTable(result.request.platform)) =>
      LET google == platform_info_table["Google"]
          known == SendRecoveryEmailDocument(Missing,
                      CHOOSE r \in DocRequests : r.platform = "Google", result.facts,
                      now, result.write, result.gmail_email, result.gmail_password,
                      IF result.status = "error" THEN "raises" ELSE "completes").result
      IN  /\ ~result.raised
          /\ result.status \in {"sent", "error", "demo"}
          /\ result.status = known.status
          /\ result.support_email = known.support_email
          /\ result.estimated_response_time = known.estimated_response_time
          /\ Contains(Document.text, google.process)
          /\ Contains(Document.text, google.timeline)
          /\ Contains(Document.text, google.form_url)
          /\ result.attempted => result.message[1].To = google.support_email
          /\ (result.write = "ok" /\ result.file_before # "nonmapping") =>
                /\ result.case_id \in FileKeys(tracking_file)
                /\ Get(tracking_file.entries, result.case_id).platform
                      = result.request.platform

\* C15 witness: a call for "Yahoo" was sent to Google's support address
\* and its case is in the store
C15_Witness ==
    /\ Sent
    /\ result.request.platform = "Yahoo"
    /\ result.status = "sent"
    /\ result.support_email = "accounts-support@google.com"
    /\ result.case_id \in FileKeys(tracking_file)

\* The last step was a discover_digital_assets call
Discovered == result.op = "discover"

\* The candidates of the returned list with this platform and method
Candidates(platform, method) ==
    SelectSeq(result.discovered_assets,
              LAMBDA a : a.platform = platform /\ a.discovery_method = method)

\* C16: every email with one '@' whose lower-cased domain contains a domain
\* of the platform table gets a candidate for that platform with confidence
\* 0.95 and the email as identifier; a common platform (google.com,
\* facebook.com, amazon.com) without a domain match gets exactly one
\* inferred candidate with confidence 0.75 and "To be determined"; one
\* with a domain match gets none.
C16_DomainMatchesAndCommonInferences ==
    Discovered =>
      /\ \A i \in DOMAIN result.deceased_emails, j \in DOMAIN platform_database :
            LET email == result.deceased_emails[i]
                at == AtSigns(email)
            IN  (/\ Cardinality(at) = 1
                 /\ \E c \in at : Contains(Lower(SubSeq(email, c + 1, Len(email))),
                                            platform_database[j].platform))
                => \E k \in DOMAIN result.discovered_assets :
                      LET a == result.discovered_assets[k]
                      IN  /\ a.platform = platform_database[j].platform
                          /\ a.account_identifier = email
                          /\ a.confidence_score = 95
                          /\ a.discovery_method = "Email domain analysis"
      /\ \A k \in DOMAIN result.discovered_assets :
            LET a == result.discovered_assets[k]
            IN  a.discovery_method = "Email domain analysis" =>
                  /\ a.confidence_score = 95
                  /\ \E i \in DOMAIN result.deceased_emails :
                        /\ a.account_identifier = result.deceased_emails[i]
                        /\ AtSigns(result.deceased_emails[i]) # {}
      /\ \A n \in DOMAIN common_platforms :
            LET matched == Candidates(common_platforms[n], "Email domain analysis")
                inferred == Candidates(common_platforms[n], "Common platform inference")
            IN  IF matched = <<>>
                THEN /\ Len(inferred) = 1
                     /\ inferred[1].confidence_score = 75
                     /\ inferred[1].account_identifier = "To be determined"
                ELSE inferred = <<>>

\* C16 witness: an upper-case address on a subdomain of google.com was
\* matched, so Google has no inferred candidate while Facebook has one
C16_Witness ==
    /\ Discovered
    /\ result.deceased_emails = <<"Ann.Lee@Mail.Google.COM">>
    /\ Len(Candidates("google.com", "Email domain analysis")) = 1
    /\ Candidates("google.com", "Common platform inference") = <<>>
    /\ Len(Candidates("facebook.com", "Common platform inference")) = 1

\* C17: no two candidates of the returned list have both the same
\* platform and the same discovery method.
C17_OneCandidatePerPlatformAndMethod ==
    Discovered =>
      \A i, j \in DOMAIN result.discovered_assets :
          (/\ result.discovered_assets[i].platform = result.discovered_assets[j].platform
           /\ result.discovered_assets[i].discovery_method
                 = result.discovered_assets[j].discovery_method)
          => i = j

\* The place of a discovery method in the order of emission
Phase(method) ==
    CASE method = "Email domain analysis"      -> 1
      [] method = "Common platform inference"  -> 2
      [] method = "Business context analysis"  -> 3
      [] method = "Financial context analysis" -> 4

\* C18: the returned list has every HIGH candidate before every MEDIUM
\* one and, within a priority, descending confidence; candidates equal in
\* both stand in the order of their emission: domain matches in the order
\* of the emails, then inferences, then business, then financial
\* candidates; and the list holds the emitted candidates, each once.
C18_SortedByPriorityThenConfidenceStable ==
    Discovered =>
      LET out == result.discovered_assets
          tied(a, b) == a.priority = b.priority /\ a.confidence_score = b.confidence_score
      IN  /\ Len(out) = Len(result.emitted)
          /\ \A i, j \in DOMAIN out :
                i < j =>
                  /\ ~(out[i].priority = "MEDIUM" /\ out[j].priority = "HIGH")
                  /\ out[i].priority = out[j].priority
                        => out[i].confidence_score >= out[j].confidence_score
                  /\ tied(out[i], out[j]) =>
                        /\ Phase(out[i].discovery_method) <= Phase(out[j].discovery_method)
                        /\ (/\ out[i].discovery_method = "Email domain analysis"
                             /\ out[j].discovery_method = "Email domain analysis")
                            => \E p, q \in DOMAIN result.deceased_emails :
                                  /\ p <= q
                                  /\ result.deceased_emails[p] = out[i].account_identifier
                                  /\ result.deceased_emails[q] = out[j].account_identifier
          /\ \A k \in DOMAIN out :
                SelectSeq(out, LAMBDA a : tied(a, out[k]))
                  = SelectSeq(result.emitted, LAMBDA a : tied(a, out[k]))

\* C18 witness: two domain matches with equal priority and confidence are
\* returned in the order of their emails, behind a later-emitted HIGH one
C18_Witness ==
    /\ Discovered
    /\ result.deceased_emails = <<"bob@facebook.com", "ann@amazon.com.evil.org">>
    /\ result.known_info = "held Bitcoin and stock"
    /\ result.discovered_assets[1].platform = "cryptocurrency_exchanges"
    /\ result.discovered_assets[2].account_identifier = "bob@facebook.com"
    /\ result.discovered_assets[3].account_identifier = "ann@amazon.com.evil.org"

\* C19 as stated: every confidence is within [0, 1], and a candidate is
\* HIGH exactly when its success rate is above 80, except the
\* cryptocurrency candidate, which is HIGH at 30.
C19_PriorityFollowsSuccessRate ==
    Discovered =>
      \A k \in DOMAIN result.discovered_assets :
          LET a == result.discovered_assets[k]
          IN  /\ a.confidence_score \in 0..100
              /\ a.priority \in {"HIGH", "MEDIUM"}
              /\ IF a.platform = "cryptocurrency_exchanges"
                 THEN a.priority = "HIGH" /\ a.success_rate = 30
                 ELSE a.priority = "HIGH" <=> a.success_rate > 80

\* C19: every confidence is within [0, 1]; a domain-match candidate is
\* HIGH exactly when its success rate is above 80; an inferred or a
\* business candidate is MEDIUM whatever its success rate (the inferred
\* Google candidate at 85); the cryptocurrency candidate is HIGH at 30.
C19_PriorityFollowsSuccessRateForMatches ==
    Discovered =>
      \A k \in DOMAIN result.discovered_assets :
          LET a == result.discovered_assets[k]
          IN  /\ a.confidence_score \in 0..100
              /\ a.priority \in {"HIGH", "MEDIUM"}
              /\ CASE a.discovery_method = "Email domain analysis" ->
                         a.priority = "HIGH" <=> a.success_rate > 80
                   [] a.discovery_method = "Common platform inference" ->
                         a.priority = "MEDIUM"
                   [] a.discovery_method = "Business context analysis" ->
                         a.priority = "MEDIUM" /\ a.success_rate <= 80
                   [] a.discovery_method = "Financial context analysis" ->
                         /\ a.platform = "cryptocurrency_exchanges"
                         /\ a.priority = "HIGH"
                         /\ a.success_rate = 30

\* C19 witness: Google is inferred at MEDIUM with success rate 85 beside a
\* PayPal domain match at HIGH and the cryptocurrency candidate
C19_Witness ==
    /\ Discovered
    /\ \E k \in DOMAIN result.discovered_assets :
          LET a == result.discovered_assets[k]
          IN  /\ a.platform = "google.com"
              /\ a.discovery_method = "Common platform inference"
              /\ a.priority = "MEDIUM"
              /\ a.success_rate = 85
    /\ Len(Candidates("paypal.com", "Email domain analysis")) = 1
    /\ Len(Candidates("cryptocurrency_exchanges", "Financial context analysis")) = 1

\* The last step was a find_nearby_lawyers call
Searched == result.op = "lawyers"

\* The distance listed in the dict literal for a name in an area
Listed(prefix, name) ==
    LET area == lawyer_database[prefix]
        i == CHOOSE j \in DOMAIN area : area[j].name = name
    IN  area[i].distance_miles

\* C20: for a zipcode whose prefix has no entry of its own but an adjacent
\* area, every lawyer returned is one of that area at 10 miles more than
\* its listed distance, whatever calls were made before; and for a zipcode
\* of the area itself every lawyer returned is at its listed distance,
\* also after calls that came in through the adjacency.
C20_AdjacentAreaAddsTenOnEveryCall ==
    Searched =>
      LET zip_prefix == ZipPrefix(result.zipcode)
      IN  /\ (zip_prefix \notin DOMAIN lawyer_database
               /\ zip_prefix \in DOMAIN nearby_prefixes) =>
                \A k \in DOMAIN result.lawyers :
                    /\ \E j \in DOMAIN lawyer_database[nearby_prefixes[zip_prefix]] :
                          lawyer_database[nearby_prefixes[zip_prefix]][j].name
                            = result.lawyers[k].name
                    /\ result.lawyers[k].distance_miles
                          = Listed(nearby_prefixes[zip_prefix], result.lawyers[k].name) + 100
          /\ zip_prefix \in DOMAIN lawyer_database =>
                \A k \in DOMAIN result.lawyers :
                    /\ \E j \in DOMAIN lawyer_database[zip_prefix] :
                          lawyer_database[zip_prefix][j].name = result.lawyers[k].name
                    /\ result.lawyers[k].distance_miles
                          = Listed(zip_prefix, result.lawyers[k].name)

\* C20 witness: a second call in a row that reaches the Boston area through
\* the adjacency returns its three lawyers, the first at 13.1 miles
C20_Witness ==
    /\ Searched
    /\ result.zipcode = "02215"
    /\ result.earlier = "02445"
    /\ Len(result.lawyers) = 3
    /\ result.lawyers[1].name = "Robert Chen, JD, LLM"
    /\ result.lawyers[1].distance_miles = 131

\* The area list the call of the last step selected, as listed, and the
\* tenths of a mile added to its distances
SelectedArea ==
    LET zip_prefix == ZipPrefix(result.zipcode)
    IN  IF zip_prefix \in DOMAIN lawyer_database
        THEN [lawyers |-> lawyer_database[zip_prefix], added |-> 0]
        ELSE IF zip_prefix \in DOMAIN nearby_prefixes
        THEN [lawyers |-> lawyer_database[nearby_prefixes[zip_prefix]], added |-> 100]
        ELSE [lawyers |-> <<>>, added |-> 0]

\* The entries of the selected area within the requested radius
InRadius ==
    SelectSeq(SelectedArea.lawyers,
              LAMBDA l : l.distance_miles + SelectedArea.added <= result.radius_miles * 10)

\* C21: at most 5 lawyers are returned, each within the requested radius
\* after any adjacency penalty; every entry of the selected area within
\* the radius is counted in lawyers_found and, when there are 5 or fewer
\* of them, returned; of a longer list the cut keeps the first 5 (no area
\* of the directory lists more than 3).
C21_AtMostFiveAllWithinRadius ==
    Searched =>
      /\ Len(result.lawyers) <= 5
      /\ \A k \in DOMAIN result.lawyers :
            result.lawyers[k].distance_miles <= result.radius_miles * 10
      /\ result.lawyers_found = Len(InRadius)
      /\ Len(InRadius) <= 5 =>
            /\ Len(result.lawyers) = Len(InRadius)
            /\ \A i \in DOMAIN InRadius :
                  \E k \in DOMAIN result.lawyers :
                      result.lawyers[k].name = InRadius[i].name
      /\ \A n \in 0..7 :
            LET many == [i \in 1..n |-> [name |-> "lawyer", rating |-> 50 - i,
                                         distance_miles |-> i]]
            IN  TopLawyers(many) = SubSeq(many, 1, IF n < 5 THEN n ELSE 5)

\* C21 witness: within 15 miles of a zipcode next to New York one of the
\* two lawyers of the area is returned, the other being 15.2 miles away
C21_Witness ==
    /\ Searched
    /\ result.zipcode = "10128"
    /\ result.radius_miles = 15
    /\ Len(result.lawyers) = 1
    /\ result.lawyers[1].name = "James Harrison, Esq."
    /\ result.lawyers[1].distance_miles = 118

\* A list is in descending order of rating and, among equal ratings, in
\* ascending order of distance
RankedByRatingThenNearness(lawyers) ==
    \A i, j \in DOMAIN lawyers :
        i < j =>
          /\ lawyers[i].rating >= lawyers[j].rating
          /\ lawyers[i].rating = lawyers[j].rating
                => lawyers[i].distance_miles <= lawyers[j].distance_miles

\* Entries with equal and with different ratings, to sort
SampleLawyers ==
    { [name |-> "near", rating |-> 48, distance_miles |-> 23],
      [name |-> "far", rating |-> 48, distance_miles |-> 187],
      [name |-> "best", rating |-> 49, distance_miles |-> 52],
      [name |-> "twin", rating |-> 48, distance_miles |-> 23] }

\* C22: the returned list is in descending order of rating, and of two
\* entries with the same rating the closer one comes first; the sort puts
\* every list of entries in that order, equal ratings included (no area of
\* the directory lists two lawyers with the same rating).
C22_RankedByRatingCloserFirstAmongEqual ==
    Searched =>
      /\ RankedByRatingThenNearness(result.lawyers)
      /\ \A n \in 0..3 : \A list \in [1..n -> SampleLawyers] :
            LET sorted == SortLawyers(<<>>, list)
            IN  /\ RankedByRatingThenNearness(sorted)
                /\ Len(sorted) = n
                /\ \A l \in SampleLawyers :
                      Len(SelectSeq(sorted, LAMBDA x : x = l))
                        = Len(SelectSeq(list, LAMBDA x : x = l))

\* C22 witness: the best-rated lawyer of the Boston area is returned first
\* although another one is closer
C22_Witness ==
    /\ Searched
    /\ result.zipcode = "02110"
    /\ Len(result.lawyers) = 3
    /\ result.lawyers[1].rating = 49 /\ result.lawyers[1].distance_miles = 31
    /\ result.lawyers[2].rating = 48 /\ result.lawyers[2].distance_miles = 23

\* The average fee of a list of consultation fees
AverageOf(fees) ==
    CalculateAverageFee([i \in DOMAIN fees |-> [consultation_fee |-> fees[i]]])

\* C23: the average consultation fee is the mean, cut to whole dollars, of
\* the numeric fees of the entries within the radius; free entries count
\* neither in the sum nor in the divisor; without a numeric fee, with only
\* free entries or with no entry at all, it is "Varies".
C23_AverageOfNumericFeesOrVaries ==
    Searched =>
      /\ (result.zipcode = "02110" /\ result.radius_miles = 25)
            => result.average_consultation_fee = "$300"
      /\ (result.zipcode = "10001" /\ result.radius_miles = 25)
            => result.average_consultation_fee = "$475"
      /\ (result.zipcode = "10128" /\ result.radius_miles = 15)
            => result.average_consultation_fee = "$500"
      /\ (result.zipcode = "90012" /\ result.radius_miles = 25)
            => result.average_consultation_fee = "$400"
      /\ (result.zipcode = "02110" /\ result.radius_miles = 3)
            => result.average_consultation_fee = "$350"
      /\ result.lawyers_found = 0 => result.average_consultation_fee = "Varies"
      /\ result.average_consultation_fee = CalculateAverageFee(InRadius)
      /\ AverageOf(<<"$350", "$375", "$300">>) = "$341"
      /\ AverageOf(<<"$100", "Free", "$201">>) = "$150"
      /\ AverageOf(<<"Free initial consultation", "Free 30-minute consultation">>) = "Varies"
      /\ AverageOf(<<"Free">>) = "Varies"
      /\ AverageOf(<<"$50 Free for veterans", "$200 per hour">>) = "$200"
      /\ AverageOf(<<>>) = "Varies"

\* C23 witness: of the two Los Angeles lawyers one is free, and the average
\* is the fee of the other
C23_Witness ==
    /\ Searched
    /\ result.zipcode = "90012"
    /\ result.lawyers_found = 2
    /\ \E k \in DOMAIN result.lawyers :
          result.lawyers[k].consultation_fee = "Free 30-minute consultation"
    /\ result.average_consultation_fee = "$400"

----------------------------------------------------------------------------
(* C24 *)

\* The values the status discriminator is documented to take
DocumentedStatuses == {"success", "error", "not_found", "sent", "demo"}

\* C24: every call of an operation returns a result (it does not raise) whose
\* status is one of success, error, not_found, sent, demo.
C24_EveryResultHasDocumentedStatus ==
    result.op # "none" =>
        /\ ~result.raised
        /\ result.status \in DocumentedStatuses

----------------------------------------------------------------------------
(* C25 *)

\* The matches of the patterns of one category, pattern after pattern
RECURSIVE CategoryMatches(_, _, _)
CategoryMatches(category, email_content, p) ==
    IF p > Len(patterns) THEN <<>>
    ELSE (IF patterns[p].category = category
          THEN Findall(p, email_content, 1) ELSE <<>>)
         \o CategoryMatches(category, email_content, p + 1)

Categories == { patterns[p].category : p \in DOMAIN patterns }

\* C25: analyze_email_content never raises; it returns status success, the
\* matches of every pattern category are recorded in the result, and the
\* confidence score is min(0.1 x total number of matches, 1.0).
C25_AnalysisNeverRaisesRecordsEveryCategory ==
    result.op = "analyze" =>
        /\ ~result.raised
        /\ result.status = "success"
        /\ LET recorded == { result.analysis_results[key] :
                                key \in DOMAIN result.analysis_results }
               all == { CategoryMatches(category, result.email_content, 1) :
                                category \in Categories }
           IN  /\ \A matches \in all : matches \in recorded
               /\ result.confidence_score =
                    (LET total == TotalFindings(
                            [category \in Categories |->
                                CategoryMatches(category, result.email_content, 1)],
                            Categories)
                     IN  IF total < 10 THEN total ELSE 10)

----------------------------------------------------------------------------
(* C26 *)

\* The zipcode's prefix has neither a direct entry nor an adjacency mapping
UnknownArea(zipcode) ==
    /\ ZipPrefix(zipcode) \notin DOMAIN lawyer_database
    /\ ZipPrefix(zipcode) \notin DOMAIN nearby_prefixes

\* C26: for a postal code whose prefix has neither a direct entry nor an
\* adjacency mapping (a code shorter than 3 characters included),
\* find_nearby_lawyers does not raise and returns a status other than
\* success (not_found or a fallback), no candidates and the fee "Varies".
C26_UnknownAreaIsNotSuccess ==
    (Searched /\ UnknownArea(result.zipcode)) =>
        /\ ~result.raised
        /\ result.status # "success"
        /\ result.lawyers_found = 0
        /\ result.lawyers = <<>>
        /\ result.average_consultation_fee = "Varies"

----------------------------------------------------------------------------
(* C27 *)

\* C27: after every send_recovery_email call that returned a case_id, the
\* store holds a record under that case_id, whatever the outcome of the
\* transmission, of the load and of the write, and a track_case_status call
\* for it that follows returns neither not_found nor error.
C27_ReturnedCaseIdIsRecorded ==
    result.op = "send" =>
        /\ result.case_id \in FileKeys(tracking_file)
        /\ LET following == TrackCaseStatus(tracking_file, result.case_id, now)
           IN  /\ ~following.raised
               /\ following.status \notin {"not_found", "error"}

----------------------------------------------------------------------------
(* C28 *)

\* The current_status texts of the follow-up tier and of the two tiers before it
FollowUpTier == {"Consider following up", "Follow-up recommended", "Follow-up needed"}
EarlierTiers ==
    {"Under review", "Should hear back soon", "Still processing", "Processing"}

\* C28: in every found result timeline_progress.under_review is "Overdue"
\* exactly when current_status is the follow-up tier of the platform, and
\* "In Progress" exactly when it is the under-review or the middle tier.
C28_UnderReviewAgreesWithCurrentStatus ==
    (result.op = "track" /\ result.status = "found") =>
        /\ result.under_review = "Overdue" <=> result.current_status \in FollowUpTier
        /\ result.under_review = "In Progress" <=> result.current_status \in EarlierTiers

----------------------------------------------------------------------------
(* C29 *)

Instructed == result.op = "instructions"

\* C29: get_platform_form_instructions returns status error only for a
\* platform it has no guide for, and every platform named in
\* available_platforms of the error result is one for which it returns status
\* success with instructions.
C29_ListedPlatformsHaveInstructions ==
    (Instructed /\ result.status = "error") =>
        /\ result.asked_platform \notin DOMAIN platform_guides
        /\ \A i \in DOMAIN result.available_platforms :
              LET listed == GetPlatformFormInstructions(result.available_platforms[i])
              IN  /\ listed.status = "success"
                  /\ listed.instructions # ""

----------------------------------------------------------------------------
(* C30 *)

\* The bounds the tier computation of a platform subtracts elapsed days from
TierBounds(platform) == IF platform = "Facebook" THEN {14, 30} ELSE {30, 90}

\* C30: every number of remaining days in estimated_completion of a found
\* result is a bound of the platform minus the elapsed days with the elapsed
\* days below that bound, so it is at least 1; the follow-up tier shows no
\* number.
C30_RemainingDaysAtLeastOne ==
    (result.op = "track" /\ result.status = "found") =>
        /\ \A i \in DOMAIN result.estimated_completion :
              /\ result.estimated_completion[i] >= 1
              /\ \E bound \in TierBounds(result.platform) :
                    /\ result.days_elapsed < bound
                    /\ result.estimated_completion[i] = bound - result.days_elapsed
        /\ result.current_status \in FollowUpTier => result.estimated_completion = <<>>
        /\ result.current_status \in EarlierTiers => result.estimated_completion # <<>>

\* A found result on the last day of a tier: one day remains
C30_Witness ==
    /\ result.op = "track" /\ result.status = "found"
    /\ \E i \in DOMAIN result.estimated_completion : result.estimated_completion[i] = 1
    /\ result.days_elapsed + 1 \in TierBounds(result.platform)

====
